---- MODULE Spec2Model ----
(***************************************************************************)
(* Model of scripts/generate_versions.py: the VersionManager that stamps   *)
(* every content file and every service of the languages/ tree with a      *)
(* version string <YYYYMMDD>.<hash8> and persists the result in            *)
(* versions.json, which the next run reads back.                           *)
(*                                                                         *)
(* Python str values that the code slices or splits (hashes, version       *)
(* strings) are sequences of one-character strings.  Python dicts keep     *)
(* insertion order, so a dict is a sequence of <<key, value>> pairs.       *)
(***************************************************************************)
EXTENDS Integers, Sequences, FiniteSets, TLC

VARIABLES
    fs,                 \* the languages/ tree: slot -> sha256 hex digest of its bytes, or Absent
    today,              \* the UTC day datetime.utcnow() reports
    disk,               \* what is stored at VERSION_FILE
    pc,                 \* position of the process in main()
    previous_versions,  \* VersionManager.previous_versions
    versions,           \* the dict generate_versions() returned
    edits,              \* number of changes made to the tree so far
    call,               \* a single call of generate_file_version: its arguments and result
    validation          \* a call of JsonValidator.validate_files: its arguments, locals and result

vars == <<fs, today, disk, pc, previous_versions, versions, edits, call, validation>>

----------------------------------------------------------------------------
(* Bounds *)

MaxDay == 2
MaxEdits == 1
MaxChunks == 1

----------------------------------------------------------------------------
(* Python values *)

\* v is evaluated once and F applied to its value
Bind(v, F(_)) == CHOOSE r \in {F(x) : x \in {v}} : TRUE

PyNone == [t |-> "none"]
JStr(s) == [t |-> "str", v |-> s]
JDict(items) == [t |-> "dict", items |-> items]
JList(xs) == [t |-> "list", items |-> xs]
JNum(n) == [t |-> "num", n |-> n]
EmptyDict == JDict(<<>>)

\* an exception travelling up the call stack
Raised(kind) == [t |-> "exc", kind |-> kind]
IsExc(v) == v.t = "exc"

\* bool(v)
Truthy(v) ==
    Bind(v, LAMBDA x :
        CASE x.t = "none" -> FALSE
          [] x.t = "str" -> x.v # <<>>
          [] x.t \in {"dict", "list"} -> x.items # <<>>
          [] x.t = "num" -> x.n # 0
          [] OTHER -> TRUE)

Keys(d) == Bind(d, LAMBDA x : {x.items[i][1] : i \in DOMAIN x.items})

\* k in d
Has(d, k) == k \in Keys(d)

ValueAt(d, k) ==
    Bind(d, LAMBDA x : x.items[CHOOSE i \in DOMAIN x.items : x.items[i][1] = k][2])

\* `k in x` raises TypeError unless x is a container
Iterable(x) == x.t \in {"dict", "list", "str"}

\* k in x for a str k and a container x: a key of a dict, an element of a
\* list, a substring of a str (as a sequence of tokens, k being one token)
Contains(x, k) ==
    Bind(x, LAMBDA y :
        CASE y.t = "dict" -> Has(y, k)
          [] y.t = "list" -> \E i \in DOMAIN y.items : y.items[i] = JStr(<<k>>)
          [] y.t = "str" -> \E i \in DOMAIN y.v : y.v[i] = k)

\* d[k]: KeyError on a dict without the key, TypeError on anything that is no dict
Index(d, k) ==
    Bind(d, LAMBDA x :
        IF IsExc(x) THEN x
        ELSE IF x.t = "dict" THEN (IF Has(x, k) THEN ValueAt(x, k) ELSE Raised("KeyError"))
        ELSE Raised("TypeError"))

\* d.get(k, default): AttributeError on anything that is no dict
DotGet(d, k, default) ==
    Bind(d, LAMBDA x :
        IF IsExc(x) THEN x
        ELSE IF x.t = "dict" THEN (IF Has(x, k) THEN ValueAt(x, k) ELSE default)
        ELSE Raised("AttributeError"))

\* d[k] = v: an existing key keeps its place, a new key goes last
Put(d, k, v) ==
    Bind(d, LAMBDA x : Bind(v, LAMBDA y :
        IF Has(x, k)
        THEN JDict([i \in DOMAIN x.items |->
                       IF x.items[i][1] = k THEN <<k, y>> ELSE x.items[i]])
        ELSE JDict(Append(x.items, <<k, y>>))))

----------------------------------------------------------------------------
(* Strings *)

Dot == "."

Last(s) == Bind(s, LAMBDA x : x[Len(x)])

\* s[:n]
Take(s, n) == Bind(s, LAMBDA x : SubSeq(x, 1, IF Len(x) < n THEN Len(x) ELSE n))

\* s.split(sep) for a one-character sep
RECURSIVE SplitFrom(_, _, _, _)
SplitFrom(s, sep, i, cur) ==
    IF i > Len(s) THEN <<cur>>
    ELSE IF s[i] = sep THEN <<cur>> \o SplitFrom(s, sep, i + 1, <<>>)
    ELSE SplitFrom(s, sep, i + 1, Append(cur, s[i]))

Split(s, sep) == Bind(s, LAMBDA x : SplitFrom(x, sep, 1, <<>>))

Digits == <<"0", "1", "2", "3", "4", "5", "6", "7", "8", "9">>
HexDigits == Digits \o <<"a", "b", "c", "d", "e", "f">>

\* n as w hexadecimal digits
RECURSIVE HexStr(_, _)
HexStr(n, w) ==
    IF w = 0 THEN <<>> ELSE HexStr(n \div 16, w - 1) \o <<HexDigits[(n % 16) + 1]>>

\* datetime.utcnow().strftime('%Y%m%d') on day d of November 2026
DateStr(d) ==
    <<"2", "0", "2", "6", "1", "1">> \o <<Digits[(d \div 10) + 1], Digits[(d % 10) + 1]>>

----------------------------------------------------------------------------
(* Hashes *)

PrefixLen == 8

Rep(c, n) == [i \in 1..n |-> c]

\* sha256 hex digests of the file contents that occur; DigestA2 shares its
\* first PrefixLen characters with DigestA
DigestA == Rep("a", PrefixLen) \o <<"0", "0">>
DigestB == Rep("b", PrefixLen) \o <<"0", "0">>
DigestA2 == Rep("a", PrefixLen) \o <<"1", "1">>

FileDigests == <<DigestA, DigestB, DigestA2>>

DigestIndex(h) == CHOOSE i \in DOMAIN FileDigests : FileDigests[i] = h

\* hashlib.sha256 fed the given blocks, hexdigest(): an injective function of
\* the concatenation (every block has the length of a hex digest)
RECURSIVE BlockCode(_)
BlockCode(blocks) ==
    IF blocks = <<>> THEN 0
    ELSE DigestIndex(Head(blocks)) + (Len(FileDigests) + 1) * BlockCode(Tail(blocks))

Sha256Hex(blocks) == HexStr(BlockCode(blocks), PrefixLen) \o <<"e", "e">>

----------------------------------------------------------------------------
(* VersionManager.generate_file_version *)

generate_file_version(file_hash, previous_version, now) ==
    Bind(Take(file_hash, PrefixLen), LAMBDA hash8 :
    Bind(previous_version, LAMBDA previous :
        IF Truthy(previous)
        THEN IF previous.t # "str" THEN Raised("AttributeError")
             ELSE IF Last(Split(previous.v, Dot)) = hash8
                  THEN previous
                  ELSE JStr(DateStr(now) \o <<Dot>> \o hash8)
        ELSE JStr(DateStr(now) \o <<Dot>> \o hash8)))

----------------------------------------------------------------------------
(* The languages/ tree *)

SUPPORTED_SERVICES == <<"website", "launcher">>
DEFAULT_LANGUAGE == "en"

\* no file at the slot
Absent == <<>>
\* a file that is listed but cannot be opened for reading
Unreadable == <<"EACCES">>

\* A file of the tree: languages/<lang>/<service>/common/<path> when kind is
\* "common", languages/<lang>/<service>/<kind>/<unit>/<path> otherwise.
\* A directory exists exactly when some file lies beneath it.
Slot(lang, service, kind, unit, path) ==
    [lang |-> lang, service |-> service, kind |-> kind, unit |-> unit, path |-> path]

Slots ==
    { Slot("en", "website", "common", "", "/a.json"),
      Slot("en", "website", "common", "", "/b.json"),
      Slot("en", "website", "common", "", "/common/a.json"),
      Slot("en", "website", "modules", "m1", "/common/a.json"),
      Slot("en", "website", "modules", "m2", "/a.json"),
      Slot("en", "website", "modules", "files", "/a.json"),
      Slot("en", "website", "standalone", "s1", "/standalone/s1/a.json"),
      Slot("en", "launcher", "common", "", "/a.json"),
      Slot("ko", "website", "common", "", "/notes.txt") }

\* contents a file of the tree is given
TreeDigests == {DigestA, DigestB}

\* rel_path.split('/')
PathParts(path) ==
    CASE path = "/a.json" -> <<"", "a.json">>
      [] path = "/b.json" -> <<"", "b.json">>
      [] path = "/notes.txt" -> <<"", "notes.txt">>
      [] path = "/common/a.json" -> <<"", "common", "a.json">>
      [] path = "/standalone/s1/a.json" -> <<"", "standalone", "s1", "a.json">>

\* file_name.endswith('.json')
EndsWithJson(name) == name \in {"a.json", "b.json"}

Name(s) == Last(PathParts(s.path))

\* the directories between the unit root and the file
Dirs(s) == SubSeq(PathParts(s.path), 2, Len(PathParts(s.path)) - 1)

Range(f) == {f[i] : i \in DOMAIN f}

\* every directory entry name and every dict key that occurs, ascending as
\* Python compares str
KeyOrder ==
    << "/a.json", "/b.json", "/common/a.json", "/standalone/s1/a.json",
       "a.json", "b.json", "common", "en", "files", "generated", "hash", "ko",
       "languages", "launcher", "m1", "m2", "meta", "modules", "notes.txt",
       "s1", "standalone", "version", "website" >>

Ascending(names) == SelectSeq(KeyOrder, LAMBDA n : n \in names)

Reverse(s) == Bind(s, LAMBDA x : [i \in DOMAIN x |-> x[Len(x) + 1 - i]])

\* The order in which the filesystem lists directory entries is not fixed:
\* a listing is the ascending one or its reverse, chosen per kind of directory.
ListingOrders == [langs : BOOLEAN, units : BOOLEAN, files : BOOLEAN]

Arrange(names, rev) == IF rev THEN Reverse(Ascending(names)) ELSE Ascending(names)

Present(tree) == {s \in Slots : tree[s] # Absent}

\* os.listdir('languages'), every entry a directory
ListLanguages(tree, ord) == Arrange({s.lang : s \in Present(tree)}, ord.langs)

\* os.path.exists(service_path)
ServiceExists(tree, lang, service) ==
    \E s \in Present(tree) : s.lang = lang /\ s.service = service

\* os.path.exists(<service_path>/<kind>)
KindExists(tree, lang, service, kind) ==
    \E s \in Present(tree) : s.lang = lang /\ s.service = service /\ s.kind = kind

\* os.listdir(modules_path), os.listdir(standalone_path): every entry a directory
ListUnits(tree, lang, service, kind, ord) ==
    Arrange({s.unit : s \in {x \in Present(tree) :
                 x.lang = lang /\ x.service = service /\ x.kind = kind}}, ord.units)

UnitFiles(tree, lang, service, kind, unit) ==
    {s \in Present(tree) :
        s.lang = lang /\ s.service = service /\ s.kind = kind /\ s.unit = unit}

RECURSIVE Concat(_)
Concat(seqs) == IF seqs = <<>> THEN <<>> ELSE Head(seqs) \o Concat(Tail(seqs))

\* os.walk(dir_path), top-down: the files of a directory in listing order,
\* then each of its subdirectories in listing order
RECURSIVE Walk(_, _, _)
Walk(files, prefix, ord) ==
    Bind(prefix, LAMBDA pre :
    Bind({s \in files : Dirs(s) = pre}, LAMBDA here :
    Bind({s \in files : Len(Dirs(s)) > Len(pre) /\ SubSeq(Dirs(s), 1, Len(pre)) = pre},
         LAMBDA below :
    Bind(Arrange({Name(s) : s \in here}, ord.files), LAMBDA names :
    Bind(Arrange({Dirs(s)[Len(pre) + 1] : s \in below}, ord.files), LAMBDA subs :
        [i \in DOMAIN names |-> CHOOSE s \in here : Name(s) = names[i]]
        \o Concat([i \in DOMAIN subs |-> Walk(below, Append(pre, subs[i]), ord)]))))))

----------------------------------------------------------------------------
(* VersionManager._get_previous_file_info *)

IndexOf(seq, x) == CHOOSE i \in DOMAIN seq : seq[i] = x /\ \A j \in 1..(i - 1) : seq[j] # x

\* the file table of the unit named by the path segment after `segment`
PreviousUnitFiles(versions_, path_parts, segment) ==
    Bind(IndexOf(path_parts, segment) + 1, LAMBDA at :
        IF at > Len(path_parts) THEN Raised("IndexError")
        ELSE Index(Index(Index(versions_, segment), path_parts[at]), "files"))

\* the body of the try block
PreviousFileLookup(prev, lang, service, file_path) ==
    Bind(PathParts(file_path), LAMBDA path_parts :
    Bind(Index(Index(Index(prev, "languages"), lang), service), LAMBDA versions_ :
        IF IsExc(versions_) THEN versions_
        ELSE IF "common" \in Range(path_parts)
             THEN DotGet(Index(Index(versions_, "common"), "files"), file_path, PyNone)
        ELSE IF "modules" \in Range(path_parts)
             THEN DotGet(PreviousUnitFiles(versions_, path_parts, "modules"),
                         file_path, PyNone)
        ELSE IF "standalone" \in Range(path_parts) /\ service = "website"
             THEN DotGet(PreviousUnitFiles(versions_, path_parts, "standalone"),
                         file_path, PyNone)
        ELSE PyNone))

get_previous_file_info(prev, lang, service, file_path) ==
    IF ~Truthy(prev) THEN PyNone
    ELSE IF ~Iterable(prev) THEN Raised("TypeError")
    ELSE IF ~Contains(prev, "languages") THEN PyNone
    ELSE Bind(PreviousFileLookup(prev, lang, service, file_path), LAMBDA found :
             IF IsExc(found) /\ found.kind \in {"KeyError", "AttributeError"}
             THEN PyNone
             ELSE found)

----------------------------------------------------------------------------
(* VersionManager.process_directory *)

\* FileInfo(version, hash).__dict__
FileInfo(version, hash) == JDict(<< <<"version", version>>, <<"hash", JStr(hash)>> >>)

\* previous_info["version"] if previous_info else None
PreviousVersionOf(previous_info) ==
    Bind(previous_info, LAMBDA info :
        IF IsExc(info) THEN info
        ELSE IF Truthy(info) THEN Index(info, "version")
        ELSE PyNone)

\* VersionManager._calculate_file_hash: the hex digest of the bytes, or
\* FileProcessError when the file cannot be opened or read (every path is
\* hashed once in a run, so the cache never answers)
calculate_file_hash(tree, s) ==
    IF tree[s] = Unreadable THEN Raised("FileProcessError") ELSE JStr(tree[s])

\* the try block of one file: its FileInfo dict, or the exception that makes
\* the loop skip the file
ProcessFile(tree, prev, now, s) ==
    Bind(calculate_file_hash(tree, s), LAMBDA file_hash :
        IF IsExc(file_hash) THEN file_hash
        ELSE Bind(PreviousVersionOf(get_previous_file_info(prev, s.lang, s.service, s.path)),
                  LAMBDA previous_version :
            IF IsExc(previous_version) THEN previous_version
            ELSE Bind(generate_file_version(file_hash.v, previous_version, now),
                      LAMBDA version :
                     IF IsExc(version) THEN version ELSE FileInfo(version, file_hash.v))))

\* the loop over the files of a walk when a file that raises ends it
RECURSIVE StopAtFailure(_, _, _, _, _)
StopAtFailure(tree, prev, now, walk, files_data) ==
    Bind(walk, LAMBDA w :
    Bind(files_data, LAMBDA data :
        IF w = <<>> THEN data
        ELSE IF ~EndsWithJson(Name(Head(w)))
             THEN StopAtFailure(tree, prev, now, Tail(w), data)
        ELSE Bind(ProcessFile(tree, prev, now, Head(w)), LAMBDA info :
                 IF IsExc(info) THEN data
                 ELSE StopAtFailure(tree, prev, now, Tail(w), Put(data, Head(w).path, info)))))

\* for root, _, files in os.walk(dir_path): for file_name in files
RECURSIVE ProcessFiles(_, _, _, _, _)
ProcessFiles(tree, prev, now, walk, files_data) ==
    Bind(walk, LAMBDA w :
    Bind(files_data, LAMBDA data :
        IF w = <<>> THEN data
        ELSE IF ~EndsWithJson(Name(Head(w)))
             THEN ProcessFiles(tree, prev, now, Tail(w), data)
        ELSE Bind(ProcessFile(tree, prev, now, Head(w)), LAMBDA info :
                 IF IsExc(info)
                 THEN ProcessFiles(tree, prev, now, Tail(w), data)
                 ELSE ProcessFiles(tree, prev, now, Tail(w), Put(data, Head(w).path, info)))))

\* process_directory on the root directory of a unit
process_directory(tree, prev, now, ord, lang, service, kind, unit) ==
    ProcessFiles(tree, prev, now,
                 Walk(UnitFiles(tree, lang, service, kind, unit), <<>>, ord), EmptyDict)

----------------------------------------------------------------------------
(* VersionManager._calculate_service_hash *)

\* d.items() in insertion order, as a loop without sorted() would see them
Unsorted(d) == d.items
\* sorted(d.items()): the keys of a dict are distinct, so the keys decide
SortedItems(d) ==
    Bind(d, LAMBDA x :
    Bind(SelectSeq(KeyOrder, LAMBDA k : Has(x, k)), LAMBDA ks :
        [i \in DOMAIN ks |-> <<ks[i], ValueAt(x, ks[i])>>]))

\* what add_files_to_hash passes to service_hash.update, or the exception
Fed(blocks) == [ok |-> TRUE, blocks |-> blocks]
Failed(exc) == [ok |-> FALSE, exc |-> exc]

Then(a, b) ==
    Bind(a, LAMBDA x :
        IF ~x.ok THEN x
        ELSE Bind(b, LAMBDA y : IF ~y.ok THEN y ELSE Fed(x.blocks \o y.blocks)))

\* service_hash.update(file_info["hash"].encode())
FeedFile(file_info) ==
    Bind(Index(file_info, "hash"), LAMBDA h :
        IF IsExc(h) THEN Failed(h)
        ELSE IF h.t # "str" THEN Failed(Raised("AttributeError"))
        ELSE Fed(<<h.v>>))

\* for _, file_info in sorted(value.items())
RECURSIVE FeedFiles(_)
FeedFiles(items) ==
    Bind(items, LAMBDA its :
        IF its = <<>> THEN Fed(<<>>)
        ELSE Then(FeedFile(Head(its)[2]), FeedFiles(Tail(its))))

RECURSIVE add_files_to_hash(_)
RECURSIVE FeedItems(_)
FeedItems(items) ==
    Bind(items, LAMBDA its :
        IF its = <<>> THEN Fed(<<>>)
        ELSE Then(IF Head(its)[1] = "files"
                  THEN IF Head(its)[2].t # "dict" THEN Failed(Raised("AttributeError"))
                       ELSE FeedFiles(SortedItems(Head(its)[2]))
                  ELSE add_files_to_hash(Head(its)[2]),
                  FeedItems(Tail(its))))

add_files_to_hash(data) ==
    Bind(data, LAMBDA x : IF x.t = "dict" THEN FeedItems(SortedItems(x)) ELSE Fed(<<>>))

calculate_service_hash(service_data) ==
    Bind(add_files_to_hash(service_data), LAMBDA fed :
        IF fed.ok THEN JStr(Sha256Hex(fed.blocks)) ELSE fed.exc)

----------------------------------------------------------------------------
(* VersionManager._process_service *)

\* a str whose characters the code never inspects, kept as one token
JName(name) == JStr(<<name>>)

UnitNode(files) == JDict(<< <<"files", files>> >>)

\* the loop over os.listdir(modules_path) or os.listdir(standalone_path)
RECURSIVE ProcessUnits(_, _, _, _, _, _, _, _, _)
ProcessUnits(tree, prev, now, ord, lang, service, kind, names, units_data) ==
    Bind(names, LAMBDA ns :
    Bind(units_data, LAMBDA data :
        IF ns = <<>> THEN data
        ELSE Bind(process_directory(tree, prev, now, ord, lang, service, kind, Head(ns)),
                  LAMBDA files :
                 ProcessUnits(tree, prev, now, ord, lang, service, kind, Tail(ns),
                              IF Truthy(files) THEN Put(data, Head(ns), UnitNode(files))
                              ELSE data))))

\* the block of the common directory
CollectCommon(tree, prev, now, ord, lang, service, service_data) ==
    IF ~KindExists(tree, lang, service, "common") THEN service_data
    ELSE Bind(process_directory(tree, prev, now, ord, lang, service, "common", ""),
              LAMBDA files :
             IF Truthy(files) THEN Put(service_data, "common", UnitNode(files))
             ELSE service_data)

\* the block of the modules directory, and of the standalone directory
CollectKind(tree, prev, now, ord, lang, service, kind, service_data) ==
    IF ~KindExists(tree, lang, service, kind) THEN service_data
    ELSE Bind(ProcessUnits(tree, prev, now, ord, lang, service, kind,
                           ListUnits(tree, lang, service, kind, ord), EmptyDict),
              LAMBDA units_data :
             IF Truthy(units_data) THEN Put(service_data, kind, units_data)
             ELSE service_data)

\* service_data once the common, modules and standalone blocks have run
CollectUnits(tree, prev, now, ord, lang, service) ==
    Bind(CollectCommon(tree, prev, now, ord, lang, service, EmptyDict), LAMBDA d1 :
    Bind(CollectKind(tree, prev, now, ord, lang, service, "modules", d1), LAMBDA d2 :
        IF service = "website"
        THEN CollectKind(tree, prev, now, ord, lang, service, "standalone", d2)
        ELSE d2))

\* self.previous_versions.get("languages", {}).get(lang, {}).get(service, {})
PreviousServiceInfo(prev, lang, service) ==
    IF Truthy(prev)
    THEN DotGet(DotGet(DotGet(prev, "languages", EmptyDict), lang, EmptyDict),
                service, EmptyDict)
    ELSE EmptyDict

\* the if service_data: block
StampService(prev, now, lang, service, service_data) ==
    Bind(calculate_service_hash(service_data), LAMBDA service_hash :
        IF IsExc(service_hash) THEN service_hash
        ELSE Bind(DotGet(PreviousServiceInfo(prev, lang, service), "version", PyNone),
                  LAMBDA previous_service_version :
                 IF IsExc(previous_service_version) THEN previous_service_version
                 ELSE Bind(generate_file_version(service_hash.v,
                                                 previous_service_version, now),
                           LAMBDA version :
                          IF IsExc(version) THEN version
                          ELSE Put(Put(service_data, "hash", service_hash),
                                   "version", version))))

\* the service's dict, None when its directory is missing, or the exception raised
process_service(tree, prev, now, ord, lang, service) ==
    IF ~ServiceExists(tree, lang, service) THEN PyNone
    ELSE Bind(CollectUnits(tree, prev, now, ord, lang, service), LAMBDA service_data :
             IF Truthy(service_data)
             THEN StampService(prev, now, lang, service, service_data)
             ELSE service_data)

----------------------------------------------------------------------------
(* VersionManager.generate_versions *)

\* for service in SUPPORTED_SERVICES: the dict of one language
RECURSIVE ProcessServices(_, _, _, _, _, _, _)
ProcessServices(tree, prev, now, ord, lang, services, lang_data) ==
    Bind(services, LAMBDA ss :
    Bind(lang_data, LAMBDA data :
        IF ss = <<>> THEN data
        ELSE Bind(process_service(tree, prev, now, ord, lang, Head(ss)),
                  LAMBDA service_data :
                 ProcessServices(tree, prev, now, ord, lang, Tail(ss),
                                 IF ~IsExc(service_data) /\ Truthy(service_data)
                                 THEN Put(data, Head(ss), service_data)
                                 ELSE data))))

\* for lang in os.listdir(languages_dir): versions["languages"]
RECURSIVE ProcessLanguages(_, _, _, _, _, _)
ProcessLanguages(tree, prev, now, ord, langs, languages) ==
    Bind(langs, LAMBDA ls :
    Bind(languages, LAMBDA data :
        IF ls = <<>> THEN data
        ELSE ProcessLanguages(tree, prev, now, ord, Tail(ls),
                 Put(data, Head(ls),
                     ProcessServices(tree, prev, now, ord, Head(ls),
                                     SUPPORTED_SERVICES, EmptyDict)))))

Meta(langs) ==
    JDict(<< <<"supportedLanguages", JList([i \in DOMAIN langs |-> JName(langs[i])])>>,
             <<"defaultLanguage", JName(DEFAULT_LANGUAGE)>>,
             <<"services", JList([i \in DOMAIN SUPPORTED_SERVICES |->
                                     JName(SUPPORTED_SERVICES[i])])>> >>)

\* "generated" keeps the date of the ISO timestamp
generate_versions(tree, prev, now, ord) ==
    Bind(ListLanguages(tree, ord), LAMBDA langs :
        JDict(<< <<"generated", JStr(DateStr(now))>>,
                 <<"languages", ProcessLanguages(tree, prev, now, ord, langs, EmptyDict)>>,
                 <<"meta", Meta(langs)>> >>))

----------------------------------------------------------------------------
(* versions.json *)

NoFile == [state |-> "absent"]
Complete(data) == [state |-> "complete", data |-> data]
\* opened for writing and truncated, `written` chunks of the new text in it
Partial(written) == [state |-> "partial", written |-> written]
\* bytes that are no JSON document
Garbage == [state |-> "garbage"]

\* VersionManager._load_previous_versions: json.load gives back what
\* json.dump was given; a text that does not parse gives None
load_previous_versions(file) ==
    IF file.state = "complete" THEN file.data ELSE PyNone

----------------------------------------------------------------------------
(* The runs of main() and what happens to the tree between them *)

NoCall == [state |-> "none"]
NoValidation == [state |-> "none"]

Tree(present) == [s \in Slots |-> IF s \in DOMAIN present THEN present[s] ELSE Absent]

Tree1 ==
    Tree(  Slot("en", "website", "common", "", "/a.json") :> DigestA
        @@ Slot("en", "website", "common", "", "/b.json") :> DigestB
        @@ Slot("en", "website", "modules", "m1", "/common/a.json") :> DigestA
        @@ Slot("en", "website", "modules", "m2", "/a.json") :> DigestB
        @@ Slot("en", "launcher", "common", "", "/a.json") :> DigestA )

Tree2 ==
    Tree(  Slot("en", "website", "common", "", "/common/a.json") :> DigestA
        @@ Slot("en", "website", "standalone", "s1", "/standalone/s1/a.json") :> DigestB
        @@ Slot("ko", "website", "common", "", "/notes.txt") :> DigestA )

InitTrees == {Tree1, Tree2}

Init ==
    /\ fs \in InitTrees
    /\ today = 1
    /\ disk = NoFile
    /\ pc = "idle"
    /\ previous_versions = PyNone
    /\ versions = PyNone
    /\ edits = 0
    /\ call = NoCall
    /\ validation = NoValidation

\* a content file is added or its bytes are changed
WriteFile(s, h) ==
    /\ pc = "idle"
    /\ edits < MaxEdits
    /\ fs[s] # h
    /\ fs' = [fs EXCEPT ![s] = h]
    /\ edits' = edits + 1
    /\ UNCHANGED <<today, disk, pc, previous_versions, versions, call, validation>>

RemoveFile(s) ==
    /\ pc = "idle"
    /\ edits < MaxEdits
    /\ fs[s] # Absent
    /\ fs' = [fs EXCEPT ![s] = Absent]
    /\ edits' = edits + 1
    /\ UNCHANGED <<today, disk, pc, previous_versions, versions, call, validation>>

\* midnight UTC passes
Tick ==
    /\ today < MaxDay
    /\ today' = today + 1
    /\ UNCHANGED <<fs, disk, pc, previous_versions, versions, edits, call, validation>>

\* versions.json is deleted between two runs
DeleteSnapshot ==
    /\ pc = "idle"
    /\ disk.state # "absent"
    /\ disk' = NoFile
    /\ UNCHANGED <<fs, today, pc, previous_versions, versions, edits, call, validation>>

\* versions.json is overwritten with bytes that are no JSON between two runs
CorruptSnapshot ==
    /\ pc = "idle"
    /\ disk.state = "complete"
    /\ disk' = Garbage
    /\ UNCHANGED <<fs, today, pc, previous_versions, versions, edits, call, validation>>

\* VersionManager.__init__
Start ==
    /\ pc = "idle"
    /\ previous_versions' = load_previous_versions(disk)
    /\ pc' = "loaded"
    /\ UNCHANGED <<fs, today, disk, versions, edits, call, validation>>

\* version_manager.generate_versions(), within one UTC day
Generate ==
    /\ pc = "loaded"
    /\ \E ord \in ListingOrders :
          versions' = generate_versions(fs, previous_versions, today, ord)
    /\ pc' = "generated"
    /\ UNCHANGED <<fs, today, disk, previous_versions, edits, call, validation>>

\* save_versions: open(VERSION_FILE, 'w') truncates the file
SaveOpen ==
    /\ pc = "generated"
    /\ disk' = Partial(0)
    /\ pc' = "writing"
    /\ UNCHANGED <<fs, today, previous_versions, versions, edits, call, validation>>

\* save_versions: json.dump writes the next chunk of the text
SaveWrite ==
    /\ pc = "writing"
    /\ disk.written < MaxChunks
    /\ disk' = Partial(disk.written + 1)
    /\ UNCHANGED <<fs, today, pc, previous_versions, versions, edits, call, validation>>

\* save_versions: the last chunk is written and the file closed; main() returns
SaveClose ==
    /\ pc = "writing"
    /\ disk.written = MaxChunks
    /\ disk' = Complete(versions)
    /\ pc' = "idle"
    /\ previous_versions' = PyNone
    /\ versions' = PyNone
    /\ UNCHANGED <<fs, today, edits, call, validation>>

\* save_versions: a write fails, VersionSaveError leaves main(); or the
\* process dies while the file is open
SaveFail ==
    /\ pc = "writing"
    /\ pc' = "idle"
    /\ previous_versions' = PyNone
    /\ versions' = PyNone
    /\ UNCHANGED <<fs, today, disk, edits, call, validation>>

\* the process dies before save_versions
Kill ==
    /\ pc \in {"loaded", "generated"}
    /\ pc' = "idle"
    /\ previous_versions' = PyNone
    /\ versions' = PyNone
    /\ UNCHANGED <<fs, today, disk, edits, call, validation>>

Next ==
    \/ \E s \in Slots, h \in TreeDigests : WriteFile(s, h)
    \/ \E s \in Slots : RemoveFile(s)
    \/ Tick
    \/ DeleteSnapshot
    \/ CorruptSnapshot
    \/ Start
    \/ Generate
    \/ SaveOpen
    \/ SaveWrite
    \/ SaveClose
    \/ SaveFail
    \/ Kill

Spec == Init /\ [][Next]_vars

----------------------------------------------------------------------------
(* Runs over a tree with a snapshot of an earlier run in place, none saved *)

Ascend == [langs |-> FALSE, units |-> FALSE, files |-> FALSE]

\* versions.json as a complete run on day 1 over one of the initial trees left it
EarlierSnapshots == {Complete(generate_versions(t, PyNone, 1, Ascend)) : t \in InitTrees}

OrderInit ==
    /\ fs \in InitTrees
    /\ today = 1
    /\ disk \in {NoFile} \cup EarlierSnapshots
    /\ pc = "idle"
    /\ previous_versions = PyNone
    /\ versions = PyNone
    /\ edits = 0
    /\ call = NoCall
    /\ validation = NoValidation

OrderNext ==
    \/ \E s \in Slots, h \in TreeDigests : WriteFile(s, h)
    \/ \E s \in Slots : RemoveFile(s)
    \/ Tick
    \/ Start
    \/ Generate

SpecOrder == OrderInit /\ [][OrderNext]_vars

----------------------------------------------------------------------------
(* Single calls of generate_file_version *)

PrefixA == Take(DigestA, PrefixLen)
PrefixB == Take(DigestB, PrefixLen)

\* previous_version arguments: None, '', identifiers of earlier runs, and
\* strings of other shapes that a previous file can hold
PreviousCandidates ==
    { PyNone,
      JStr(<<>>),
      JStr(PrefixA),
      JStr(PrefixB),
      JStr(<<"x">>),
      JStr(<<Dot>> \o PrefixA),
      JStr(DateStr(1) \o <<Dot>>),
      JStr(<<"v", Dot, "1", Dot>> \o PrefixA) }
    \cup {JStr(DateStr(d) \o <<Dot>> \o x) : d \in 1..MaxDay, x \in {PrefixA, PrefixB}}

PolicyInit ==
    /\ fs = Tree1
    /\ today \in 1..MaxDay
    /\ disk = NoFile
    /\ pc = "idle"
    /\ previous_versions = PyNone
    /\ versions = PyNone
    /\ edits = 0
    /\ call \in [state : {"called"}, file_hash : Range(FileDigests),
                 previous_version : PreviousCandidates, result : {PyNone}]
    /\ validation = NoValidation

PolicyCall ==
    /\ call.state = "called"
    /\ call' = [call EXCEPT !.state = "returned",
                            !.result = generate_file_version(call.file_hash,
                                           call.previous_version, today)]
    /\ UNCHANGED <<fs, today, disk, pc, previous_versions, versions, edits, validation>>

PolicyNext == PolicyCall

SpecPolicy == PolicyInit /\ [][PolicyNext]_vars

----------------------------------------------------------------------------
(* The layout of a snapshot *)

Languages(v) == ValueAt(v, "languages")

\* <<lang, service>> of every service node
ServiceEntries(v) ==
    UNION {{<<l, s>> : s \in Keys(ValueAt(Languages(v), l))} : l \in Keys(Languages(v))}

ServiceNode(v, e) == ValueAt(ValueAt(Languages(v), e[1]), e[2])

UnitsOfKind(node, e, kind) ==
    IF Has(node, kind) THEN {<<e[1], e[2], kind, u>> : u \in Keys(ValueAt(node, kind))}
    ELSE {}

\* <<lang, service, kind, unit>> of every unit node
UnitEntries(v) ==
    UNION {(IF Has(ServiceNode(v, e), "common") THEN {<<e[1], e[2], "common", "">>} ELSE {})
           \cup UnitsOfKind(ServiceNode(v, e), e, "modules")
           \cup UnitsOfKind(ServiceNode(v, e), e, "standalone") : e \in ServiceEntries(v)}

UnitNodeAt(v, u) ==
    IF u[3] = "common" THEN ValueAt(ServiceNode(v, <<u[1], u[2]>>), "common")
    ELSE ValueAt(ValueAt(ServiceNode(v, <<u[1], u[2]>>), u[3]), u[4])

\* <<unit entry, path>> of every file record
FileEntries(v) ==
    UNION {{<<u, path>> : path \in Keys(ValueAt(UnitNodeAt(v, u), "files"))} :
              u \in UnitEntries(v)}

FileNodeAt(v, f) == ValueAt(ValueAt(UnitNodeAt(v, f[1]), "files"), f[2])

VersionOf(node) == DotGet(node, "version", PyNone)
HashOf(node) == DotGet(node, "hash", PyNone)

\* the day whose date "generated" shows
GeneratedDay(v) == CHOOSE d \in 1..MaxDay : DateStr(d) = ValueAt(v, "generated").v

\* the file record of a slot
OwnEntry(s) == <<<<s.lang, s.service, s.kind, s.unit>>, s.path>>

----------------------------------------------------------------------------
(* Properties *)

\* generate_versions has returned and its result is in `versions`
RunGenerated == pc = "generated"

\* the run read a snapshot that an earlier run wrote
Warm == previous_versions.t = "dict"

\* the file records whose hash is not the one the previous snapshot holds
Modified ==
    {f \in FileEntries(versions) \cap FileEntries(previous_versions) :
        HashOf(FileNodeAt(versions, f)) # HashOf(FileNodeAt(previous_versions, f))}

SameFiles == FileEntries(versions) = FileEntries(previous_versions)

\* no content file was added, removed or modified since the previous snapshot
SameContent == SameFiles /\ Modified = {}

\* exactly one content file was modified, none added or removed
OneModified == SameFiles /\ Cardinality(Modified) = 1

\* C1: a run over unchanged content that reads the snapshot of the run before
\* it gives every file, unit and service the identifier that snapshot holds,
\* whatever the days of the two runs.
C1_Continuity ==
    (RunGenerated /\ Warm /\ SameContent) =>
        /\ ServiceEntries(versions) = ServiceEntries(previous_versions)
        /\ \A f \in FileEntries(versions) :
              VersionOf(FileNodeAt(versions, f)) = VersionOf(FileNodeAt(previous_versions, f))
        /\ \A u \in UnitEntries(versions) :
              VersionOf(UnitNodeAt(versions, u)) = VersionOf(UnitNodeAt(previous_versions, u))
        /\ \A e \in ServiceEntries(versions) :
              VersionOf(ServiceNode(versions, e)) = VersionOf(ServiceNode(previous_versions, e))

\* C2: when exactly one content file was modified since the previous run, the
\* identifier of that file, of its unit and of its service all differ from
\* the ones of the previous snapshot.
C2_ChangePropagates ==
    (RunGenerated /\ Warm /\ OneModified) =>
        \A f \in Modified :
            /\ VersionOf(FileNodeAt(versions, f))
                   # VersionOf(FileNodeAt(previous_versions, f))
            /\ VersionOf(UnitNodeAt(versions, f[1]))
                   # VersionOf(UnitNodeAt(previous_versions, f[1]))
            /\ VersionOf(ServiceNode(versions, <<f[1][1], f[1][2]>>))
                   # VersionOf(ServiceNode(previous_versions, <<f[1][1], f[1][2]>>))

\* C3: when exactly one content file was modified since the previous run,
\* every other file of its unit, every other unit of its service and every
\* other service keeps the identifier of the previous snapshot.
C3_ChangeIsolated ==
    (RunGenerated /\ Warm /\ OneModified) =>
        \A m \in Modified :
            /\ \A f \in FileEntries(versions) :
                  (f[1] = m[1] /\ f # m) =>
                      VersionOf(FileNodeAt(versions, f))
                          = VersionOf(FileNodeAt(previous_versions, f))
            /\ \A u \in UnitEntries(versions) :
                  (u[1] = m[1][1] /\ u[2] = m[1][2] /\ u # m[1]) =>
                      VersionOf(UnitNodeAt(versions, u))
                          = VersionOf(UnitNodeAt(previous_versions, u))
            /\ \A e \in ServiceEntries(versions) :
                  (e # <<m[1][1], m[1][2]>> /\ e \in ServiceEntries(previous_versions)) =>
                      VersionOf(ServiceNode(versions, e))
                          = VersionOf(ServiceNode(previous_versions, e))

\* the aggregate digest of a unit: sha256 over its per-file digests, sorted by path
UnitDigest(unit) ==
    Bind(SortedItems(ValueAt(unit, "files")), LAMBDA its :
        Sha256Hex([i \in DOMAIN its |-> HashOf(its[i][2]).v]))

\* the identifier the previous snapshot holds for a unit, None when it holds none
PreviousUnitVersion(u) ==
    IF Warm /\ u \in UnitEntries(previous_versions)
    THEN VersionOf(UnitNodeAt(previous_versions, u))
    ELSE PyNone

\* C4: every unit node of the snapshot carries an identifier: the continuity
\* policy applied to the unit's aggregate digest and the identifier the
\* previous snapshot holds for the same unit.
C4_UnitIdentifier ==
    RunGenerated =>
        \A u \in UnitEntries(versions) :
            /\ Has(UnitNodeAt(versions, u), "version")
            /\ ValueAt(UnitNodeAt(versions, u), "version")
                   = generate_file_version(UnitDigest(UnitNodeAt(versions, u)),
                                           PreviousUnitVersion(u), GeneratedDay(versions))

\* C5: versions.json never holds an empty, truncated or partial text: what a
\* run leaves there at any step is the previous snapshot or the new one, whole.
C5_AtomicWrite == disk.state # "partial"

\* the epoch-marker of an identifier is the date of the run
FreshEpoch(node) == Take(VersionOf(node).v, Len(DateStr(1))) = ValueAt(versions, "generated").v

\* C6: a run that finds no previous snapshot, or one that does not parse,
\* records every content file of the tree, and every identifier of its
\* snapshot carries the date of the run.
C6_ColdStart ==
    (RunGenerated /\ previous_versions = PyNone) =>
        /\ \A s \in Present(fs) :
              EndsWithJson(Name(s)) =>
                  /\ OwnEntry(s) \in FileEntries(versions)
                  /\ HashOf(FileNodeAt(versions, OwnEntry(s))) = JStr(fs[s])
        /\ \A f \in FileEntries(versions) : FreshEpoch(FileNodeAt(versions, f))
        /\ \A e \in ServiceEntries(versions) : FreshEpoch(ServiceNode(versions, e))

\* the digest and the identifier of every service and of every unit
Aggregates(v) ==
    [services |-> {<<e, HashOf(ServiceNode(v, e)), VersionOf(ServiceNode(v, e))>> :
                      e \in ServiceEntries(v)},
     units |-> {<<u, HashOf(UnitNodeAt(v, u)), VersionOf(UnitNodeAt(v, u))>> :
                   u \in UnitEntries(v)}]

\* C7: whatever order the filesystem lists files, modules and standalone
\* units in, the run gives every service and every unit the digest and the
\* identifier that a run listing everything in ascending order gives them, so
\* any two listing orders give the same ones.
C7_OrderIndependent ==
    RunGenerated =>
        Aggregates(generate_versions(fs, previous_versions, GeneratedDay(versions), Ascend))
            = Aggregates(versions)

\* a warm run that listed two files of a unit and two modules of a service
\* in an order that is not the sorted one
C7_Witness ==
    /\ RunGenerated
    /\ Warm
    /\ \E e \in ServiceEntries(versions) :
          LET node == ServiceNode(versions, e)
          IN /\ Has(node, "common") /\ Has(node, "modules") /\ Has(node, "version")
             /\ ValueAt(ValueAt(node, "common"), "files").items
                    # SortedItems(ValueAt(ValueAt(node, "common"), "files"))
             /\ ValueAt(node, "modules").items # SortedItems(ValueAt(node, "modules"))

\* C8: a language, a service or a unit is a key of the snapshot only if a
\* content file was found beneath it.
C8_NoEmptyNodes ==
    RunGenerated =>
        /\ \A l \in Keys(Languages(versions)) :
              \E f \in FileEntries(versions) : f[1][1] = l
        /\ \A e \in ServiceEntries(versions) :
              \E f \in FileEntries(versions) : <<f[1][1], f[1][2]>> = e
        /\ \A u \in UnitEntries(versions) :
              \E f \in FileEntries(versions) : f[1] = u

\* previous is present, has the separator, and the part after it is the
\* first PrefixLen characters of the digest
Reusable(previous, digest) ==
    /\ previous # PyNone
    /\ previous.v # <<>>
    /\ Dot \in Range(previous.v)
    /\ Last(Split(previous.v, Dot)) = Take(digest, PrefixLen)

\* <epoch-marker>.<digest-prefix>
HasIdentifierForm(version, digest) ==
    /\ Dot \in Range(version.v)
    /\ Last(Split(version.v, Dot)) = Take(digest, PrefixLen)

\* C9: generate_file_version returns previous unchanged exactly when previous
\* is present, contains the separator and its digest-prefix is the first 8
\* characters of the digest; otherwise it returns <today>.<first 8 characters
\* of the digest>; what it returns always has the form <epoch>.<prefix>.
C9_ContinuityPolicy ==
    call.state = "returned" =>
        /\ Reusable(call.previous_version, call.file_hash) =>
              call.result = call.previous_version
        /\ ~Reusable(call.previous_version, call.file_hash) =>
              call.result = JStr(DateStr(today) \o <<Dot>> \o Take(call.file_hash, PrefixLen))
        /\ HasIdentifierForm(call.result, call.file_hash)

\* d without the key k
Del(d, k) == JDict(SelectSeq(d.items, LAMBDA it : it[1] # k))

\* the snapshot without the file record f
ForgetEntry(v, f) ==
    LET l == f[1][1]
        s == f[1][2]
        kind == f[1][3]
        node == ServiceNode(v, <<l, s>>)
        unit == UnitNodeAt(v, f[1])
        unit2 == Put(unit, "files", Del(ValueAt(unit, "files"), f[2]))
        node2 == IF kind = "common" THEN Put(node, "common", unit2)
                 ELSE Put(node, kind, Put(ValueAt(node, kind), f[1][4], unit2))
    IN Put(v, "languages",
           Put(Languages(v), l, Put(ValueAt(Languages(v), l), s, node2)))

\* C10: the identifier a run gives a file is the one it would give it had the
\* previous snapshot not held any one record of another path, unit, service
\* or language.
C10_NoForeignInfluence ==
    (RunGenerated /\ Warm) =>
        \A s \in Present(fs) :
            OwnEntry(s) \in FileEntries(versions) =>
                \A f \in FileEntries(previous_versions) \ {OwnEntry(s)} :
                    VersionOf(FileNodeAt(versions, OwnEntry(s)))
                        = VersionOf(ProcessFile(fs, ForgetEntry(previous_versions, f),
                                                GeneratedDay(versions), s))

----------------------------------------------------------------------------
(* Runs that read a versions.json which parses but has not the expected shape *)

\* the position of every value inside v, as the keys that lead to it
RECURSIVE KeyPaths(_)
KeyPaths(v) ==
    Bind(v, LAMBDA x :
        IF x.t # "dict" THEN {<<>>}
        ELSE {<<>>} \cup UNION {{<<k>> \o p : p \in KeyPaths(ValueAt(x, k))} : k \in Keys(x)})

\* v with the value at `path` replaced by r
RECURSIVE Replace(_, _, _)
Replace(v, path, r) ==
    IF path = <<>> THEN r
    ELSE Put(v, Head(path), Replace(ValueAt(v, Head(path)), Tail(path), r))

\* v without the key that ends `path`
RECURSIVE Remove(_, _)
Remove(v, path) ==
    IF Len(path) = 1 THEN Del(v, Head(path))
    ELSE Put(v, Head(path), Remove(ValueAt(v, Head(path)), Tail(path)))

\* null, [], ["languages"], "x", "languages", 0, 5
Replacements ==
    {PyNone, JList(<<>>), JList(<<JName("languages")>>), JName("x"), JName("languages"),
     JNum(0), JNum(5)}

\* the JSON documents that differ from v at one position: a value of another
\* type there, or the key missing
Damaged(v) ==
    {Replace(v, p, r) : p \in KeyPaths(v), r \in Replacements}
    \cup {Remove(v, p) : p \in KeyPaths(v) \ {<<>>}}

LookupInit ==
    /\ \E t \in InitTrees :
          /\ fs = t
          /\ disk \in {Complete(d) : d \in Damaged(generate_versions(t, PyNone, 1, Ascend))}
    /\ today = 1
    /\ pc = "idle"
    /\ previous_versions = PyNone
    /\ versions = PyNone
    /\ edits = 0
    /\ call = NoCall
    /\ validation = NoValidation

LookupNext ==
    \/ Tick
    \/ Start
    \/ Generate

SpecLookup == LookupInit /\ [][LookupNext]_vars

\* the files and the services of a snapshot, each with its digest
Content(v) ==
    [files |-> {<<f, HashOf(FileNodeAt(v, f))>> : f \in FileEntries(v)},
     services |-> {<<e, HashOf(ServiceNode(v, e))>> : e \in ServiceEntries(v)}]

\* C11: whatever JSON document the previous snapshot is, a key missing or a
\* value of an unexpected type anywhere in it, the run writes the files and
\* the services, with the digests, that a run without previous snapshot
\* writes for the same tree.
C11_LookupsTotal ==
    RunGenerated =>
        Content(versions) = Content(generate_versions(fs, PyNone, today, Ascend))

\* the trees that hold the content files of `tree`, one of them moved to
\* another place of the same service
Regroupings(tree) ==
    {[tree EXCEPT ![m[1]] = Absent, ![m[2]] = tree[m[1]]] :
        m \in {x \in Slots \X Slots :
                  /\ tree[x[1]] # Absent /\ tree[x[2]] = Absent
                  /\ x[1].lang = x[2].lang /\ x[1].service = x[2].service
                  /\ EndsWithJson(Name(x[1])) /\ EndsWithJson(Name(x[2]))}}

\* the aggregate digests of the units of kind `kind`, in the order of their names
UnitDigestsOf(node, kind) ==
    IF Has(node, kind)
    THEN Bind(SortedItems(ValueAt(node, kind)), LAMBDA its :
             [i \in DOMAIN its |-> UnitDigest(its[i][2])])
    ELSE <<>>

\* common first, then the modules by name, then the standalone units by name
UnitDigests(node) ==
    (IF Has(node, "common") THEN <<UnitDigest(ValueAt(node, "common"))>> ELSE <<>>)
    \o UnitDigestsOf(node, "modules") \o UnitDigestsOf(node, "standalone")

\* C12: the digest of a service is a digest of the sequence of its units'
\* aggregate digests: the service keeps its digest when one of its files is
\* moved to another place exactly when the move leaves the sequence of unit
\* digests as it was.
C12_DigestOverUnits ==
    RunGenerated =>
        \A t \in Regroupings(fs) :
            LET moved == generate_versions(t, PyNone, today, Ascend)
            IN \A e \in ServiceEntries(versions) \cap ServiceEntries(moved) :
                  (HashOf(ServiceNode(versions, e)) = HashOf(ServiceNode(moved, e)))
                      <=> (UnitDigests(ServiceNode(versions, e))
                              = UnitDigests(ServiceNode(moved, e)))

----------------------------------------------------------------------------
(* Runs over a tree in which files cannot be read *)

\* a content file loses its read permission
MakeUnreadable(s) ==
    /\ pc = "idle"
    /\ edits < MaxEdits
    /\ fs[s] \notin {Absent, Unreadable}
    /\ fs' = [fs EXCEPT ![s] = Unreadable]
    /\ edits' = edits + 1
    /\ UNCHANGED <<today, disk, pc, previous_versions, versions, call, validation>>

\* Tree1 with one file unreadable
Tree1b == [Tree1 EXCEPT ![Slot("en", "website", "common", "", "/b.json")] = Unreadable]

\* versions.json as a complete run on day 1 over the tree left it
SnapshotOf(t) == generate_versions(t, PyNone, 1, Ascend)

\* the keys that lead to the file record f of a snapshot
RecordPath(f) ==
    <<"languages", f[1][1], f[1][2]>>
    \o (IF f[1][3] = "common" THEN <<"common">> ELSE <<f[1][3], f[1][4]>>)
    \o <<"files", f[2]>>

\* d with the version of one file record replaced by the number 5
BadVersion(d) ==
    {Replace(d, RecordPath(f) \o <<"version">>, JNum(5)) : f \in FileEntries(d)}

SkipInit ==
    /\ \/ /\ fs \in {Tree1, Tree1b}
          /\ disk \in {NoFile, Complete(SnapshotOf(Tree1))}
       \/ /\ fs = Tree2
          /\ disk \in {NoFile, Complete(SnapshotOf(Tree2))}
                       \cup {Complete(d) : d \in BadVersion(SnapshotOf(Tree2))}
    /\ today \in 1..MaxDay
    /\ pc = "idle"
    /\ previous_versions = PyNone
    /\ versions = PyNone
    /\ edits = 0
    /\ call = NoCall
    /\ validation = NoValidation

SkipNext ==
    \/ \E s \in Slots : MakeUnreadable(s)
    \/ \E s \in Slots, h \in TreeDigests : WriteFile(s, h)
    \/ Start
    \/ Generate

SpecSkip == SkipInit /\ [][SkipNext]_vars

\* the content files of the tree that cannot be hashed
Failing == {s \in Present(fs) : EndsWithJson(Name(s)) /\ fs[s] = Unreadable}

\* what the run would have produced had the file at s been readable
HadItBeenReadable(s) ==
    generate_versions([fs EXCEPT ![s] = DigestA], previous_versions,
                      GeneratedDay(versions), Ascend)

\* the content files whose version cannot be computed from the previous snapshot
VersionFailing ==
    {s \in Present(fs) \ Failing :
        /\ EndsWithJson(Name(s))
        /\ IsExc(ProcessFile(fs, previous_versions, GeneratedDay(versions), s))}

\* what a run without previous snapshot produces when every file is readable
WithoutFailures ==
    generate_versions([s \in Slots |-> IF fs[s] = Unreadable THEN DigestA ELSE fs[s]],
                      PyNone, GeneratedDay(versions), Ascend)

\* C13: a content file that cannot be hashed, or whose version cannot be
\* computed, is left out of the snapshot and nothing else is:
\* generate_versions returns; every file that a run without failures writes,
\* the failing ones apart, is written with its digest; and every other file
\* record, every other service and every language that the run would have
\* written had an unreadable file been readable is written, and written the same.
C13_SkipAndContinue ==
    RunGenerated =>
        /\ versions.t = "dict"
        /\ Bind(WithoutFailures, LAMBDA clean :
           Bind({OwnEntry(s) : s \in Failing \cup VersionFailing}, LAMBDA failed :
              /\ failed \cap FileEntries(versions) = {}
              /\ \A f \in FileEntries(clean) \ failed :
                    /\ f \in FileEntries(versions)
                    /\ HashOf(FileNodeAt(versions, f)) = HashOf(FileNodeAt(clean, f))))
        /\ \A f \in FileEntries(versions) :
              \E x \in Present(fs) \ Failing :
                  f = OwnEntry(x) /\ HashOf(FileNodeAt(versions, f)) = JStr(fs[x])
        /\ \A s \in Failing :
              Bind(HadItBeenReadable(s), LAMBDA ok :
                  /\ OwnEntry(s) \notin FileEntries(versions)
                  /\ \A f \in FileEntries(ok) \ {OwnEntry(s)} :
                        /\ f \in FileEntries(versions)
                        /\ FileNodeAt(versions, f) = FileNodeAt(ok, f)
                  /\ \A e \in ServiceEntries(ok) \ {<<s.lang, s.service>>} :
                        /\ e \in ServiceEntries(versions)
                        /\ HashOf(ServiceNode(versions, e)) = HashOf(ServiceNode(ok, e))
                        /\ VersionOf(ServiceNode(versions, e))
                               = VersionOf(ServiceNode(ok, e))
                  /\ Keys(Languages(versions)) = Keys(Languages(ok)))

\* a run that met an unreadable file in a unit and wrote another file of
\* that unit, listed after it
C13_Witness ==
    /\ RunGenerated
    /\ Warm
    /\ \E s \in Failing :
          \E f \in FileEntries(versions) :
              /\ f[1] = OwnEntry(s)[1]
              /\ LET files == ValueAt(UnitNodeAt(versions, f[1]), "files")
                 IN SortedItems(files) = files.items /\ IndexOf(KeyOrder, s.path) < IndexOf(KeyOrder, f[2])

----------------------------------------------------------------------------
(* scripts/validate_json.py: JsonValidator.validate_files, the futures of  *)
(* its thread pool, and the sequential validator of scripts/vaildate_json.py *)

MaxFiles == 3

\* ValidatorConfig.parallel_workers
parallel_workers == 4

\* the paths a caller passes, in the order sorted() gives them; '' is the empty str
PathOrder == <<"", "a.json", "b.json", "c.txt">>

\* JsonValidator.is_json_file: Path(file_path).suffix.lower() == '.json'
is_json_file(file_path) == file_path \in {"a.json", "b.json"}

JsonPaths == {f \in Range(PathOrder) : is_json_file(f)}

\* what is at a path: a JSON document, a text that does not parse, nothing,
\* or a JSON document larger than ValidatorConfig.max_file_size
FileStates == {"valid", "invalid", "missing", "big"}

\* sorted(paths)
SortedPaths(paths) == SelectSeq(PathOrder, LAMBDA f : f \in paths)

\* set(filter(None, files))
DistinctFiles(files) == {f \in Range(files) : f # ""}

\* validate_json.py, JsonValidator.validate_json_file: (is_valid, errors)
validate_json_file(content, file_path) ==
    CASE content[file_path] = "missing" -> <<FALSE, <<"File not found: <file>">>>>
      [] content[file_path] = "big" -> <<FALSE, <<"File exceeds maximum size of <n> bytes: <file>">>>>
      [] content[file_path] = "invalid" -> <<FALSE, <<"JSON syntax error: <e>">>>>
      [] OTHER -> <<TRUE, <<>>>>

\* vaildate_json.py, JsonValidator.validate_json_file: (is_valid, errors)
sequential_validate_json_file(content, file_path) ==
    CASE content[file_path] = "missing" -> <<FALSE, <<"File not found: <file>">>>>
      [] content[file_path] = "invalid" -> <<FALSE, <<"JSON syntax error at <line_col>: <e>">>>>
      [] OTHER -> <<TRUE, <<>>>>

\* the entry that both validate_files append for a file
ResultEntry(file_path, outcome) ==
    IF outcome[1] THEN [file |-> file_path, success |-> TRUE]
    ELSE [file |-> file_path, errors |-> outcome[2], success |-> FALSE]

\* vaildate_json.py, JsonValidator.validate_files: its "results" for the paths
SequentialResults(content, paths) ==
    Bind(SortedPaths(paths), LAMBDA sorted :
        [i \in DOMAIN sorted |->
            ResultEntry(sorted[i], sequential_validate_json_file(content, sorted[i]))])

ValidateInit ==
    /\ fs = Tree1
    /\ today = 1
    /\ disk = NoFile
    /\ pc = "idle"
    /\ previous_versions = PyNone
    /\ versions = PyNone
    /\ edits = 0
    /\ call = NoCall
    /\ \E files \in UNION {[1..n -> Range(PathOrder)] : n \in 0..MaxFiles},
          content \in [JsonPaths -> FileStates] :
          validation = [state |-> "called", files |-> files, content |-> content]

Frame == UNCHANGED <<fs, today, disk, pc, previous_versions, versions, edits, call>>

\* validate_files up to the end of the dict comprehension: every .json path
\* is submitted to the executor, in sorted order
ValidateSubmit ==
    /\ validation.state = "called"
    /\ validation' =
          Bind(DistinctFiles(validation.files), LAMBDA files :
              IF files = {}
              THEN [state |-> "returned", files |-> validation.files,
                    content |-> validation.content,
                    has_errors |-> FALSE, results |-> <<>>,
                    total |-> 0, passed |-> 0, failed |-> 0, skipped |-> 0]
              ELSE Bind({f \in files : is_json_file(f)}, LAMBDA json_files :
                       [state |-> "running", files |-> validation.files,
                        content |-> validation.content,
                        future |-> [f \in json_files |-> "queued"],
                        has_errors |-> FALSE, results |-> <<>>,
                        total |-> Cardinality(json_files), passed |-> 0, failed |-> 0,
                        skipped |-> Cardinality(files) - Cardinality(json_files)]))
    /\ Frame

\* a free worker thread takes the oldest queued call of validate_json_file
WorkerStart(f) ==
    /\ validation.state = "running"
    /\ f \in DOMAIN validation.future
    /\ validation.future[f] = "queued"
    /\ \A g \in DOMAIN validation.future :
          validation.future[g] = "queued" => SortedPaths({f, g})[1] = f
    /\ Cardinality({g \in DOMAIN validation.future : validation.future[g] = "started"})
          < parallel_workers
    /\ validation' = [validation EXCEPT !.future[f] = "started"]
    /\ Frame

\* validate_json_file returns in its worker thread: the future is finished
WorkerFinish(f) ==
    /\ validation.state = "running"
    /\ f \in DOMAIN validation.future
    /\ validation.future[f] = "started"
    /\ validation' = [validation EXCEPT !.future[f] = "finished"]
    /\ Frame

\* as_completed hands the main thread a finished future and the body of the
\* for loop runs for it
Yield(f) ==
    /\ validation.state = "running"
    /\ f \in DOMAIN validation.future
    /\ validation.future[f] = "finished"
    /\ validation' =
          Bind(validate_json_file(validation.content, f), LAMBDA outcome :
              [validation EXCEPT
                  !.future[f] = "yielded",
                  !.has_errors = IF outcome[1] THEN @ ELSE TRUE,
                  !.failed = IF outcome[1] THEN @ ELSE @ + 1,
                  !.passed = IF outcome[1] THEN @ + 1 ELSE @,
                  !.results = Append(@, ResultEntry(f, outcome))])
    /\ Frame

\* as_completed is exhausted and validate_files returns its dict
ValidateReturn ==
    /\ validation.state = "running"
    /\ \A f \in DOMAIN validation.future : validation.future[f] = "yielded"
    /\ validation' = [validation EXCEPT !.state = "returned"]
    /\ Frame

ValidateNext ==
    \/ ValidateSubmit
    \/ \E f \in JsonPaths : WorkerStart(f)
    \/ \E f \in JsonPaths : WorkerFinish(f)
    \/ \E f \in JsonPaths : Yield(f)
    \/ ValidateReturn

SpecValidate == ValidateInit /\ [][ValidateNext]_vars

\* C14: whatever order the workers finish in, validate_files returns one
\* entry for each distinct .json path, in ascending order of the paths, the
\* list that the sequential validator returns for these paths, and
\* passed + failed = total, and has_errors exactly when failed > 0.
C14_SchedulingIndependent ==
    validation.state = "returned" =>
        Bind({f \in DistinctFiles(validation.files) : is_json_file(f)}, LAMBDA json_files :
            /\ [i \in DOMAIN validation.results |-> validation.results[i].file]
                  = SortedPaths(json_files)
            /\ validation.results = SequentialResults(validation.content, json_files)
            /\ validation.passed + validation.failed = validation.total
            /\ validation.has_errors <=> validation.failed > 0)

====
